---- MODULE Spec2Model ----
(***************************************************************************)
(* Model of civitai_downloader/cli.py: main() and download_file().         *)
(* One invocation of the program is a run of download_file under main's    *)
(* try/except; invocations follow each other against the same output path  *)
(* and the same remote content.  The server, the network and process       *)
(* termination are the environment.                                         *)
(***************************************************************************)
EXTENDS Integers, Sequences, FiniteSets, TLC

(* ------------------------------ bounds ---------------------------------- *)

\* Length of the fixed remote content, in bytes.
RemoteLen == 3

\* Longest pre-existing local file that is not a prefix of the remote content.
MaxStale == 2

\* Number of invocations of the program against the same output path.
MaxInvocations == 2

(* ------------------------- program constants ---------------------------- *)

\* cli.py:12 (1638400 bytes, scaled to the byte granularity of the model).
CHUNK_SIZE == 2

\* cli.py:14
USER_AGENT == "Mozilla/5.0"

\* What urllib sends when the caller gives no User-Agent header.
DEFAULT_AGENT == "Python-urllib"

None == "None"

\* An optional number (a header that may be missing, a size that may be
\* unknown): <<>> when missing, <<n>> when present.
Missing == <<>>

Num(n) == <<n>>

Known(x) == x # Missing

Val(x) == x[1]

\* A Content-Length header whose text is not a number.
Garbled == <<-1>>

(* ------------------------------ content --------------------------------- *)

\* The remote file: bytes 1..RemoteLen, all distinct.
Remote == [i \in 1..RemoteLen |-> i]

\* A byte that does not occur in the remote content.
StaleByte == 0

Prefix(s, n) == SubSeq(s, 1, n)

\* Suffix(s, k): what is left of s after its first k bytes.
Suffix(s, k) == SubSeq(s, k + 1, Len(s))

IsPrefix(p, s) == Len(p) <= Len(s) /\ Prefix(s, Len(p)) = p

Min(a, b) == IF a <= b THEN a ELSE b

\* Local files the first invocation can find: a prefix of the remote content
\* (an earlier partial or complete download) or a file of foreign bytes.
LocalFiles ==
    {Prefix(Remote, n) : n \in 0..RemoteLen}
        \cup {[i \in 1..n |-> StaleByte] : n \in 1..MaxStale}

(* ------------------------------- strings -------------------------------- *)

\* Strings are sequences of one-character strings.
Digits == {"0", "1", "2", "3", "4", "5", "6", "7", "8", "9"}

Letters ==
    {"a", "b", "c", "d", "e", "f", "g", "h", "i", "j", "k", "l", "m",
     "n", "o", "p", "q", "r", "s", "t", "u", "v", "w", "x", "y", "z"}

\* All strings over an alphabet, up to a length.
StringsUpTo(alphabet, n) == UNION {[1..k -> alphabet] : k \in 0..n}

\* str.isdigit(): a non-empty string of digits.
IsDigit(x) == x # <<>> /\ \A i \in DOMAIN x : x[i] \in Digits

\* str.startswith(prefix)
StartsWith(x, prefix) == Len(x) >= Len(prefix) /\ SubSeq(x, 1, Len(prefix)) = prefix

\* Mutant of BASE_URL: the base endpoint without its scheme.
BASE_URL_NoScheme ==
    <<"c", "i", "v", "i", "t", "a", "i", ".", "c", "o", "m", "/", "a", "p", "i", "/", "d",
    "o", "w", "n", "l", "o", "a", "d", "/", "m", "o", "d", "e", "l", "s", "/">>

\* cli.py:15
BASE_URL ==
    <<"h", "t", "t", "p", "s", ":", "/", "/", "c", "i", "v", "i", "t", "a", "i", ".", "c",
    "o", "m", "/", "a", "p", "i", "/", "d", "o", "w", "n", "l", "o", "a", "d", "/", "m", "o",
    "d", "e", "l", "s", "/">>

\* Mutant of normalize_url: the base endpoint is put before every argument.
normalize_url_AlwaysPrefix(x) == BASE_URL \o x

\* cli.py:18-27
normalize_url(x) ==
    IF IsDigit(x) THEN BASE_URL \o x
    ELSE IF StartsWith(x, <<"h", "t", "t", "p">>) THEN x
    ELSE BASE_URL \o x

\* The model identifier main is given in the invocations of the download.
MODEL_ID == <<"4", "6", "8", "4", "6">>

(* --------------------- the redirect URL's filename ---------------------- *)

\* The double quote character.
DoubleQuote == "dq"

HexDigits ==
    Digits \cup {"A", "B", "C", "D", "E", "F", "a", "b", "c", "d", "e", "f"}

\* Characters that percent-encoding leaves as they are.
Unreserved == Letters \cup Digits \cup {"-", ".", "_", "~"}

\* The two hexadecimal digits of the characters the model encodes.
HexOf ==
    [c \in {"%", DoubleQuote, ";", " ", "=", "/", "+"} |->
        CASE c = "%" -> <<"2", "5">>
          [] c = DoubleQuote -> <<"2", "2">>
          [] c = ";" -> <<"3", "B">>
          [] c = " " -> <<"2", "0">>
          [] c = "=" -> <<"3", "D">>
          [] c = "/" -> <<"2", "F">>
          [] OTHER -> <<"2", "B">>]

\* The character of a pair of hexadecimal digits ("?": one the model has no
\* name for).
CharOf(pair) ==
    CASE pair = <<"2", "5">> -> "%"
      [] pair = <<"2", "2">> -> DoubleQuote
      [] pair = <<"3", "B">> -> ";"
      [] pair = <<"2", "0">> -> " "
      [] pair = <<"3", "D">> -> "="
      [] pair \in {<<"2", "F">>, <<"2", "f">>} -> "/"
      [] pair \in {<<"2", "B">>, <<"2", "b">>} -> "+"
      [] pair = <<"5", "2">> -> "R"
      [] pair = <<"5", "5">> -> "U"
      [] OTHER -> "?"

\* The server's percent-encoding of a parameter value.
RECURSIVE PercentEncode(_)
PercentEncode(x) ==
    IF x = <<>> THEN <<>>
    ELSE (IF x[1] \in Unreserved THEN <<x[1]>> ELSE <<"%">> \o HexOf[x[1]])
            \o PercentEncode(Tail(x))

\* urllib.parse.unquote: every % followed by two hexadecimal digits becomes
\* the character they encode; any other character stays.
RECURSIVE unquote(_)
unquote(x) ==
    IF x = <<>> THEN <<>>
    ELSE IF x[1] = "%" /\ Len(x) >= 3 /\ x[2] \in HexDigits /\ x[3] \in HexDigits
         THEN <<CharOf(<<x[2], x[3]>>)>> \o unquote(SubSeq(x, 4, Len(x)))
    ELSE <<x[1]>> \o unquote(Tail(x))

\* cli.py:95-96: parse_qs gives the value of the parameter with + read as a
\* space and percent-encoding decoded.
parse_qs(value) == unquote([i \in DOMAIN value |-> IF value[i] = "+" THEN " " ELSE value[i]])

\* str.find(token) + 1: where the token first occurs, 0 when it does not.
Find(x, token) ==
    LET hits == {i \in 1..(Len(x) - Len(token) + 1) :
                    SubSeq(x, i, i + Len(token) - 1) = token}
    IN IF hits = {} THEN 0 ELSE CHOOSE i \in hits : \A j \in hits : i <= j

\* x.split(token)[1]: what lies between the first and the second occurrence
\* of the token (the caller checks that there is a first).
SplitSecond(x, token) ==
    LET rest == SubSeq(x, Find(x, token) + Len(token), Len(x))
        next == Find(rest, token)
    IN IF next = 0 THEN rest ELSE SubSeq(rest, 1, next - 1)

\* x.strip(c)
RECURSIVE strip(_, _)
strip(x, c) ==
    IF x = <<>> THEN x
    ELSE IF x[1] = c THEN strip(Tail(x), c)
    ELSE IF x[Len(x)] = c THEN strip(SubSeq(x, 1, Len(x) - 1), c)
    ELSE x

FILENAME_TOKEN == <<"f", "i", "l", "e", "n", "a", "m", "e", "=">>

\* cli.py:94-101: the filename of the redirect URL, from the still encoded
\* value of its response-content-disposition parameter (Missing: no such
\* parameter).  The result is the filename or the exception raised.
ExtractFilename(value) ==
    LET content_disposition == IF value = Missing THEN Missing ELSE parse_qs(value)
    IN IF content_disposition = <<>>
       THEN [raised |-> "ValueError", name |-> <<>>]
       ELSE IF Find(content_disposition, FILENAME_TOKEN) = 0
       THEN [raised |-> "IndexError", name |-> <<>>]
       ELSE [raised |-> None,
             name |-> unquote(strip(SplitSecond(content_disposition, FILENAME_TOKEN),
                                    DoubleQuote))]

\* The header value  attachment; filename="F"  of a file named F.
Attachment(F) == 
    <<"a", "t", "t", "a", "c", "h", "m", "e", "n", "t", ";", " ", "f", "i", "l", "e", "n", "a", "m", "e", "=">> \o <<DoubleQuote>> \o F \o <<DoubleQuote>>

(* ---------------------------- the output path -------------------------- *)

\* os.path.join(a, b): an absolute b replaces a; otherwise b follows a and a
\* separator.
join(a, b) ==
    IF StartsWith(b, <<"/">>) THEN b
    ELSE IF a = <<>> \/ a[Len(a)] = "/" THEN a \o b
    ELSE a \o <<"/">> \o b

\* x.split('/')
RECURSIVE Components(_)
Components(x) ==
    LET i == Find(x, <<"/">>)
    IN IF i = 0 THEN <<x>>
       ELSE <<SubSeq(x, 1, i - 1)>> \o Components(SubSeq(x, i + 1, Len(x)))

\* The components of a path with the empty ones and "." dropped and ".."
\* taking back the component before it (above the root there is nothing).
RECURSIVE Collapse(_, _, _)
Collapse(comps, kept, absolute) ==
    IF comps = <<>> THEN kept
    ELSE LET c == comps[1]
             rest == Tail(comps)
         IN IF c = <<>> \/ c = <<".">> THEN Collapse(rest, kept, absolute)
            ELSE IF c # <<".", ".">> THEN Collapse(rest, Append(kept, c), absolute)
            ELSE IF kept # <<>> /\ kept[Len(kept)] # <<".", ".">>
                 THEN Collapse(rest, SubSeq(kept, 1, Len(kept) - 1), absolute)
            ELSE IF absolute THEN Collapse(rest, kept, absolute)
            ELSE Collapse(rest, Append(kept, c), absolute)

\* os.path.normpath(x): the place a path names.
normpath(x) ==
    [absolute |-> StartsWith(x, <<"/">>),
     comps |-> Collapse(Components(x), <<>>, StartsWith(x, <<"/">>))]

\* The path names an entry of the directory itself, not of a directory above,
\* below or beside it.
DirectChild(path, dir) ==
    LET p == normpath(path)
        d == normpath(dir)
    IN /\ p.absolute = d.absolute
       /\ Len(p.comps) = Len(d.comps) + 1
       /\ SubSeq(p.comps, 1, Len(d.comps)) = d.comps
       /\ p.comps[Len(p.comps)] # <<".", ".">>

\* The name ends in a component that can name a file.
NamesFile(x) ==
    LET c == Components(x)
    IN c[Len(c)] \notin {<<>>, <<".">>, <<".", ".">>}

\* The output directory the caller gave.
OUTPUT_PATH == <<"o">>

(* ----------------------- exceptions and main's except ------------------- *)

\* The parent class of each exception class the program can raise.
ExcParent ==
    [ValueError |-> "Exception", RuntimeError |-> "Exception",
     FileNotFoundError |-> "OSError", URLError |-> "OSError",
     HTTPError |-> "URLError", ConnectionResetError |-> "OSError",
     OSError |-> "Exception", IndexError |-> "LookupError",
     LookupError |-> "Exception", ZeroDivisionError |-> "ArithmeticError",
     ArithmeticError |-> "Exception", IncompleteRead |-> "HTTPException",
     HTTPException |-> "Exception", Exception |-> "BaseException"]

RECURSIVE IsInstance(_, _)
IsInstance(e, cls) ==
    IF e = cls THEN TRUE
    ELSE IF e \in DOMAIN ExcParent THEN IsInstance(ExcParent[e], cls)
    ELSE FALSE

\* cli.py:200: except (ValueError, FileNotFoundError, RuntimeError, IOError,
\* urllib.error.URLError); IOError is OSError.
ExceptClause == {"ValueError", "FileNotFoundError", "RuntimeError", "OSError", "URLError"}

Caught(e) == \E cls \in ExceptClause : IsInstance(e, cls)

(* ------------------------------ requests -------------------------------- *)

\* Mutant of ApiHeaders: the token is left out of the headers dictionary.
ApiHeaders_NoToken == [auth |-> None, agent |-> USER_AGENT, range |-> Missing]

\* cli.py:75-78: the headers dictionary built from the token.
ApiHeaders == [auth |-> "Bearer", agent |-> USER_AGENT, range |-> Missing]

\* Mutant of RangeHeaders: the range starts one byte after the resume position.
RangeHeaders_OffByOne(pos) == [auth |-> None, agent |-> DEFAULT_AGENT, range |-> Num(pos + 1)]

\* cli.py:120: the headers of the resume request hold the Range header only.
RangeHeaders(pos) == [auth |-> None, agent |-> DEFAULT_AGENT, range |-> Num(pos)]

\* Mutant of PlainHeaders: the full request is sent with a Range header again.
PlainHeaders_KeepRange == [auth |-> None, agent |-> DEFAULT_AGENT, range |-> Num(0)]

\* cli.py:130, 134: urlopen(redirect_url) is given no headers.
PlainHeaders == [auth |-> None, agent |-> DEFAULT_AGENT, range |-> Missing]

\* One HTTP exchange: the request as sent and the status of the answer
\* (0: no answer, the connection failed).
Exchange(target, hdrs, status) ==
    [target |-> target, auth |-> hdrs.auth, agent |-> hdrs.agent,
     range |-> hdrs.range, status |-> status]

(* ------------------------------ the server ------------------------------ *)

\* Mutant of RedirectStatuses: 404 is tested after the redirect branch took it.
RedirectStatuses_With404 == {301, 302, 303, 307, 308, 404}

\* cli.py:90: the statuses download_file takes for a redirect.
RedirectStatuses == {301, 302, 303, 307, 308}

\* Statuses the download endpoint answers the resolution request with.
ResolveStatuses == {302, 307, 404, 500}

\* The response-content-disposition parameter of the Location URL: missing,
\* present without a filename= token, or carrying the quoted filename.
Dispositions == {"absent", "nofilename", "ok"}

\* Content-Length headers a response with this body can carry: none, one that
\* is not a number, the true length, or a smaller one (a chunked body longer
\* than declared).
ContentLengths(body) == {Missing, Garbled} \cup {Num(n) : n \in 0..Len(body)}

HonestLength(clen, body) == clen \in {Missing, Num(Len(body))}

NoResponse == [status |-> 0, clen |-> Missing, body |-> <<>>]

\* Responses urlopen returns to download_file for Range: bytes=pos- (the
\* default opener raises HTTPError for every status outside 2xx): 206 with
\* some range of the content, 200 with the whole content, 204 with nothing.
RangeResponses(pos) ==
    {[status |-> 206, clen |-> c, body |-> Suffix(Remote, k)] :
        k \in 0..RemoteLen, c \in {Missing, Garbled} \cup {Num(n) : n \in 0..RemoteLen}}
      \cup {[status |-> 200, clen |-> Num(RemoteLen), body |-> Remote],
            [status |-> 204, clen |-> Missing, body |-> <<>>]}

\* The subset of them whose Content-Length can go with the body.
RangeAnswers(pos) == {r \in RangeResponses(pos) : r.clen \in ContentLengths(r.body)}

\* Responses to a request without Range: the whole content.
PlainAnswers == {[status |-> 200, clen |-> c, body |-> Remote] : c \in ContentLengths(Remote)}

\* How far the server has departed from a range-honouring server of fixed
\* content: "honour" (every range request answered by the bytes asked for, or
\* refused when there are none), "downgrade" (some range request answered 200),
\* "faulty" (a wrong range, a wrong Content-Length, an unexpected status).
ConductRank == [honour |-> 0, downgrade |-> 1, faulty |-> 2]

Worse(a, b) == IF ConductRank[a] >= ConductRank[b] THEN a ELSE b

RangeConduct(pos, r) ==
    IF r.status = 200 THEN "downgrade"
    ELSE IF r.status = 206 /\ r.body = Suffix(Remote, pos) /\ HonestLength(r.clen, r.body)
         THEN "honour"
    ELSE "faulty"

PlainConduct(r) == IF HonestLength(r.clen, r.body) THEN "honour" ELSE "faulty"

(* -------------------------------- speed --------------------------------- *)

\* chunk_end_time - chunk_start_time (cli.py:152-154, 161): time.time() is
\* the wall clock, whose resolution makes a fast read take no time and which a
\* clock adjustment can set back between the two readings.
Elapsed == {-1, 0, 1}

\* cli.py:164: len(buffer) / chunk_time / (1024 ** 2), kept as the fraction of
\* bytes over seconds (the division by 1024 ** 2 is a fixed scale).
Throughput(n, t) == <<n, t>>

\* cli.py:149: speed = 0
ZeroSpeed == <<0, 1>>

\* Mutant of NextSpeed: a sample without positive elapsed time resets the speed.
NextSpeed_ResetOnZero(prev, n, t) == IF t > 0 THEN Throughput(n, t) ELSE ZeroSpeed

\* cli.py:163-164: if chunk_time > 0: speed = ...
NextSpeed(prev, n, t) == IF t > 0 THEN Throughput(n, t) ELSE prev

(* ------------------------------- state ---------------------------------- *)

VARIABLES
    pc,               \* position of the running invocation
    invocation,       \* number of invocations started
    dirExists,        \* the output directory exists
    fileExists,       \* the output file exists
    file,             \* content of the output file
    file0,            \* content of the output file when the invocation began
    dir0,             \* the output directory existed when the invocation began
    exists0,          \* the output file existed when the invocation began
    prevExit,         \* how the previous invocation ended
    op,               \* the function applied to arg: main's, or one called alone
    arg,              \* its argument, a string as a sequence of characters
    res,              \* its results so far, in order
    requests,         \* HTTP exchanges of this invocation, in order
    locationRead,     \* response.getheader('Location') was called
    filename,         \* cli.py:99
    resume_byte_pos,  \* cli.py:113
    response,         \* cli.py:122/130/134
    rpos,             \* bytes of response.body already read
    total_size,       \* cli.py:136
    file_mode,        \* cli.py:145
    downloaded,       \* cli.py:147
    buffer,           \* cli.py:153
    written,          \* bytes handed to f.write by this invocation
    unflushed,        \* bytes of the last write still in the file object's buffer
    err,              \* class of the exception that ended the invocation
    caught,           \* main's except clause caught it
    errorLines,       \* ERROR: lines printed by this invocation
    progressReports,  \* progress lines written by this invocation
    completionReports,\* 'Download completed' lines printed by this invocation
    conduct,          \* see ConductRank
    speed,            \* cli.py:149, 164
    samples           \* the chunks of this invocation: size and elapsed time of each read

fsVars == <<dirExists, fileExists, file>>

loopVars == <<rpos, downloaded, buffer, written>>

outVars == <<progressReports, completionReports>>

vars == <<pc, invocation, dirExists, fileExists, file, file0, dir0, exists0, prevExit,
          op, arg, res, requests,
          locationRead, filename, resume_byte_pos, response, rpos, total_size,
          file_mode, downloaded, buffer, written, unflushed, err, caught,
          errorLines, progressReports, completionReports, conduct, speed, samples>>

Terminal == {"complete", "failed", "killed"}

Streaming == {"read", "write", "report"}

Init ==
    /\ pc = "idle"
    /\ invocation = 0
    /\ fileExists \in BOOLEAN
    /\ file \in (IF fileExists THEN LocalFiles ELSE {<<>>})
    /\ dirExists \in (IF fileExists THEN {TRUE} ELSE BOOLEAN)
    /\ file0 = file
    /\ dir0 = dirExists
    /\ exists0 = fileExists
    /\ prevExit = None
    /\ op = "main"
    /\ arg = MODEL_ID
    /\ res = <<>>
    /\ requests = <<>>
    /\ locationRead = FALSE
    /\ filename = None
    /\ resume_byte_pos = 0
    /\ response = NoResponse
    /\ rpos = 0
    /\ total_size = Missing
    /\ file_mode = None
    /\ downloaded = 0
    /\ buffer = <<>>
    /\ written = 0
    /\ unflushed = 0
    /\ err = None
    /\ caught = FALSE
    /\ errorLines = 0
    /\ progressReports = 0
    /\ completionReports = 0
    /\ conduct = "honour"
    /\ speed = ZeroSpeed
    /\ samples = <<>>

\* An exception leaves download_file: main's except clause prints one line
\* for the classes it names (cli.py:200-201); any other class ends the process
\* with a traceback.  Leaving the with block closes the file.
Raise(e) ==
    /\ pc' = "failed"
    /\ err' = e
    /\ caught' = Caught(e)
    /\ errorLines' = IF Caught(e) THEN errorLines + 1 ELSE errorLines
    /\ unflushed' = 0

NoRaise == UNCHANGED <<err, caught, errorLines>>

\* download_file is left, by its return, an exception or the death of the
\* process: the locals of its streaming loop end with the call.
LoopLocalsGone ==
    /\ speed' = ZeroSpeed
    /\ samples' = <<>>

LoopLocalsKept == UNCHANGED <<speed, samples>>

\* main (cli.py:188-199): a new invocation calls download_file.
Start ==
    /\ pc \in Terminal \cup {"idle"}
    /\ invocation < MaxInvocations
    /\ invocation' = invocation + 1
    /\ pc' = "resolve"
    /\ file0' = file
    /\ dir0' = dirExists
    /\ exists0' = fileExists
    /\ prevExit' = IF pc = "idle" THEN None ELSE pc
    /\ res' = <<normalize_url(arg)>>
    /\ UNCHANGED <<op, arg>>
    /\ requests' = <<>>
    /\ locationRead' = FALSE
    /\ filename' = None
    /\ resume_byte_pos' = 0
    /\ response' = NoResponse
    /\ rpos' = 0
    /\ total_size' = Missing
    /\ file_mode' = None
    /\ downloaded' = 0
    /\ buffer' = <<>>
    /\ written' = 0
    /\ unflushed' = 0
    /\ err' = None
    /\ caught' = FALSE
    /\ errorLines' = 0
    /\ progressReports' = 0
    /\ completionReports' = 0
    /\ speed' = ZeroSpeed
    /\ samples' = <<>>
    /\ UNCHANGED <<fsVars, conduct>>

\* Mutant of Resolve: os.makedirs is called before the resolution request.
Resolve_MkdirFirst ==
    /\ pc = "resolve"
    /\ dirExists' = TRUE
    /\ UNCHANGED <<invocation, fileExists, file, file0, dir0, exists0, prevExit, speed, samples, op, arg, res, resume_byte_pos, response, loopVars,
                   total_size, file_mode, outVars, conduct>>
    /\ \/ \* opener.open fails: no response
          /\ requests' = Append(requests, Exchange("api", ApiHeaders, 0))
          /\ UNCHANGED <<locationRead, filename>>
          /\ Raise("URLError")
       \/ \E st \in ResolveStatuses :
            /\ requests' = Append(requests, Exchange("api", ApiHeaders, st))
            /\ IF st \in RedirectStatuses
               THEN /\ locationRead' = TRUE
                    /\ \E d \in Dispositions :
                         CASE d = "ok" ->
                                /\ filename' = "model.safetensors"
                                /\ pc' = "prepare"
                                /\ unflushed' = unflushed
                                /\ NoRaise
                           [] d = "nofilename" ->
                                /\ filename' = filename
                                /\ Raise("IndexError")
                           [] OTHER ->
                                /\ filename' = filename
                                /\ Raise("ValueError")
               ELSE /\ UNCHANGED <<locationRead, filename>>
                    /\ IF st = 404
                       THEN Raise("FileNotFoundError")
                       ELSE Raise("RuntimeError")

\* cli.py:86-105: the resolution request and the filename.
Resolve ==
    /\ pc = "resolve"
    /\ UNCHANGED <<invocation, fsVars, file0, dir0, exists0, prevExit, speed, samples, op, arg, res, resume_byte_pos, response, loopVars,
                   total_size, file_mode, outVars, conduct>>
    /\ \/ \* opener.open fails: no response
          /\ requests' = Append(requests, Exchange("api", ApiHeaders, 0))
          /\ UNCHANGED <<locationRead, filename>>
          /\ Raise("URLError")
       \/ \E st \in ResolveStatuses :
            /\ requests' = Append(requests, Exchange("api", ApiHeaders, st))
            /\ IF st \in RedirectStatuses
               THEN /\ locationRead' = TRUE
                    /\ \E d \in Dispositions :
                         CASE d = "ok" ->
                                /\ filename' = "model.safetensors"
                                /\ pc' = "prepare"
                                /\ unflushed' = unflushed
                                /\ NoRaise
                           [] d = "nofilename" ->
                                /\ filename' = filename
                                /\ Raise("IndexError")
                           [] OTHER ->
                                /\ filename' = filename
                                /\ Raise("ValueError")
               ELSE /\ UNCHANGED <<locationRead, filename>>
                    /\ IF st = 404
                       THEN Raise("FileNotFoundError")
                       ELSE Raise("RuntimeError")

\* cli.py:107-116: the output directory, the output path, the resume position.
Prepare ==
    /\ pc = "prepare"
    /\ dirExists' = TRUE
    /\ resume_byte_pos' = IF fileExists THEN Len(file) ELSE 0
    /\ pc' = IF resume_byte_pos' > 0 THEN "range" ELSE "get"
    /\ NoRaise
    /\ UNCHANGED <<invocation, fileExists, file, file0, dir0, exists0, prevExit, speed, samples, op, arg, res, requests, locationRead,
                   filename, response, loopVars, total_size, file_mode, unflushed,
                   outVars, conduct>>

\* cli.py:119-132: the resume request and the branch on its status.  urlopen
\* raises URLError when the connection fails and HTTPError for a status
\* outside 2xx (416 when the range starts at or after the end of the content).
Negotiate ==
    /\ pc = "range"
    /\ UNCHANGED <<invocation, fsVars, file0, dir0, exists0, prevExit, speed, samples, op, arg, res, locationRead, filename, loopVars,
                   total_size, file_mode, outVars>>
    /\ LET hdrs == RangeHeaders(resume_byte_pos)
           from == Val(hdrs.range)
       IN
       \/ /\ requests' = Append(requests, Exchange("content", hdrs, 0))
          /\ UNCHANGED <<resume_byte_pos, response, conduct>>
          /\ Raise("URLError")
       \/ /\ requests' = Append(requests, Exchange("content", hdrs, 416))
          /\ UNCHANGED <<resume_byte_pos, response>>
          /\ conduct' = IF from >= RemoteLen THEN conduct ELSE "faulty"
          /\ Raise("HTTPError")
       \/ \E r \in RangeAnswers(from) :
            /\ requests' = Append(requests, Exchange("content", hdrs, r.status))
            /\ conduct' = Worse(conduct, RangeConduct(from, r))
            /\ response' = r
            /\ CASE r.status = 206 ->
                      /\ pc' = "headers"
                      /\ UNCHANGED <<resume_byte_pos, unflushed>>
                      /\ NoRaise
                 [] r.status = 200 ->
                      /\ resume_byte_pos' = 0
                      /\ pc' = "restart"
                      /\ unflushed' = unflushed
                      /\ NoRaise
                 [] OTHER ->
                      /\ UNCHANGED resume_byte_pos
                      /\ Raise("RuntimeError")

\* urlopen(redirect_url): a request without headers of its own; the connection
\* fails, the server refuses (HTTPError), or it sends the whole content.
FullRequest ==
    /\ UNCHANGED <<invocation, fsVars, file0, dir0, exists0, prevExit, speed, samples, op, arg, res, locationRead, filename,
                   resume_byte_pos, loopVars, total_size, file_mode, outVars>>
    /\ \/ /\ requests' = Append(requests, Exchange("content", PlainHeaders, 0))
          /\ UNCHANGED <<response, conduct>>
          /\ Raise("URLError")
       \/ /\ requests' = Append(requests, Exchange("content", PlainHeaders, 403))
          /\ UNCHANGED response
          /\ conduct' = "faulty"
          /\ Raise("HTTPError")
       \/ \E r \in PlainAnswers :
            /\ requests' = Append(requests, Exchange("content", PlainHeaders, r.status))
            /\ conduct' = Worse(conduct, PlainConduct(r))
            /\ response' = r
            /\ pc' = "headers"
            /\ unflushed' = unflushed
            /\ NoRaise

\* cli.py:130: the full request that follows a 200 answer to the resume request.
Restart == pc = "restart" /\ FullRequest

\* cli.py:134: the full request of an invocation that found nothing to resume.
PlainGet == pc = "get" /\ FullRequest

\* Mutant of TotalSize: the resume offset is not added to a 206's length.
TotalSize_NoOffset(clen, status, pos) == IF ~Known(clen) THEN Missing ELSE clen

\* cli.py:136-142: the total size, from the Content-Length header.
TotalSize(clen, status, pos) ==
    IF ~Known(clen) THEN Missing
    ELSE IF pos > 0 /\ status = 206 THEN Num(Val(clen) + pos)
    ELSE clen

\* Mutant of FileMode: the file is always opened for append.
FileMode_AlwaysAppend(pos) == "ab"

\* Mutant of FileMode: the file is always opened for truncating overwrite.
FileMode_AlwaysTruncate(pos) == "wb"

\* cli.py:145
FileMode(pos) == IF pos > 0 THEN "ab" ELSE "wb"

\* Mutant of Opened: opening for writing keeps the content.
Opened_KeepContent(mode, content) == content

\* open(output_file, mode): "wb" truncates, "ab" keeps the content.
Opened(mode, content) == IF mode = "wb" THEN <<>> ELSE content

\* cli.py:136-149: int(Content-Length), then the file is opened.
Open ==
    /\ pc = "headers"
    /\ UNCHANGED <<invocation, dirExists, file0, dir0, exists0, prevExit, samples, op, arg, res, requests, locationRead, filename,
                   resume_byte_pos, response, rpos, buffer, written, outVars, conduct>>
    /\ IF response.clen = Garbled
       THEN /\ UNCHANGED <<fileExists, file, total_size, file_mode, downloaded, speed>>
            /\ Raise("ValueError")
       ELSE /\ total_size' = TotalSize(response.clen, response.status, resume_byte_pos)
            /\ \/ \* open fails (permissions, a directory in the way)
                  /\ UNCHANGED <<fileExists, file, file_mode, downloaded, speed>>
                  /\ Raise("OSError")
               \/ /\ file_mode' = FileMode(resume_byte_pos)
                  /\ fileExists' = TRUE
                  /\ file' = Opened(file_mode', file)
                  /\ downloaded' = resume_byte_pos
                  /\ speed' = ZeroSpeed
                  /\ pc' = "read"
                  /\ unflushed' = 0
                  /\ NoRaise

\* response.read(CHUNK_SIZE): the next bytes of the body, at most CHUNK_SIZE.
ReadChunk(body, pos) == SubSeq(body, pos + 1, Min(Len(body), pos + CHUNK_SIZE))

\* Exceptions response.read raises when the connection breaks.
ReadErrors == {"ConnectionResetError", "IncompleteRead"}

\* Mutant of LoopExit: a read shorter than the chunk size ends the loop.
LoopExit_ShortRead(buf) == Len(buf) < CHUNK_SIZE

\* cli.py:156-157: if not buffer: break
LoopExit(buf) == buf = <<>>

\* cli.py:152-157: one read; an empty buffer leaves the loop.
LoopRead ==
    /\ pc = "read"
    /\ UNCHANGED <<invocation, fsVars, file0, dir0, exists0, prevExit, op, arg, res, requests, locationRead, filename,
                   resume_byte_pos, response, total_size, file_mode, downloaded,
                   written, outVars, conduct>>
    /\ \/ /\ buffer' = ReadChunk(response.body, rpos)
          /\ rpos' = rpos + Len(buffer')
          /\ pc' = IF LoopExit(buffer') THEN "finish" ELSE "write"
          /\ unflushed' = unflushed
          /\ LoopLocalsKept
          /\ NoRaise
       \/ \E e \in ReadErrors :
            /\ UNCHANGED <<buffer, rpos>>
            /\ LoopLocalsGone
            /\ Raise(e)

\* Mutant of Count: the size asked for is counted, not the size received.
Count_Requested(n, chunk) == n + CHUNK_SIZE

\* cli.py:159
Count(n, chunk) == n + Len(chunk)

\* Mutant of WriteChunk: each chunk replaces what the file held.
WriteChunk_Overwrite(content, chunk) == chunk

\* cli.py:160: f.write(buffer) on a file opened in either mode appends.
WriteChunk(content, chunk) == content \o chunk

\* cli.py:159-160: the counter advances, then the chunk is written; the write
\* can fail (disk full) with nothing of the chunk in the file.
LoopWrite ==
    /\ pc = "write"
    /\ downloaded' = Count(downloaded, buffer)
    /\ UNCHANGED <<invocation, dirExists, fileExists, file0, dir0, exists0, prevExit, op, arg, res, requests, locationRead,
                   filename, resume_byte_pos, response, rpos, total_size, file_mode,
                   buffer, outVars, conduct>>
    /\ \/ /\ file' = WriteChunk(file, buffer)
          /\ written' = written + Len(buffer)
          /\ unflushed' = Len(buffer)
          /\ pc' = "report"
          /\ LoopLocalsKept
          /\ NoRaise
       \/ /\ UNCHANGED <<file, written>>
          /\ LoopLocalsGone
          /\ Raise("OSError")

\* cli.py:161-169: the elapsed time of the read, the speed, and the progress
\* line, written when the total size is known; downloaded / total_size
\* divides by zero when the total is 0.
LoopReport ==
    /\ pc = "report"
    /\ UNCHANGED <<invocation, fsVars, file0, dir0, exists0, prevExit, op, arg, res, requests, locationRead, filename,
                   resume_byte_pos, response, loopVars, total_size, file_mode,
                   completionReports, conduct>>
    /\ IF Known(total_size) /\ Val(total_size) = 0
       THEN /\ UNCHANGED progressReports
            /\ LoopLocalsGone
            /\ Raise("ZeroDivisionError")
       ELSE /\ \E chunk_time \in Elapsed :
                 /\ samples' = Append(samples, <<Len(buffer), chunk_time>>)
                 /\ speed' = NextSpeed(speed, Len(buffer), chunk_time)
            /\ progressReports' = IF Known(total_size) THEN progressReports + 1
                                  ELSE progressReports
            /\ pc' = "read"
            /\ unflushed' = unflushed
            /\ NoRaise

\* cli.py:171-185: the with block closes the file, the completion lines follow.
Finish ==
    /\ pc = "finish"
    /\ pc' = "complete"
    /\ unflushed' = 0
    /\ completionReports' = completionReports + 1
    /\ LoopLocalsGone
    /\ NoRaise
    /\ UNCHANGED <<invocation, fsVars, file0, dir0, exists0, prevExit, op, arg, res, requests, locationRead, filename,
                   resume_byte_pos, response, loopVars, total_size, file_mode,
                   progressReports, conduct>>

\* The process is killed in the streaming loop: nothing closes the file, and
\* the bytes of the last write that were still buffered, or that the operating
\* system had not taken, are lost.
Kill ==
    /\ pc \in Streaming
    /\ pc' = "killed"
    /\ \E lost \in 0..unflushed : file' = Prefix(file, Len(file) - lost)
    /\ unflushed' = 0
    /\ LoopLocalsGone
    /\ NoRaise
    /\ UNCHANGED <<invocation, dirExists, fileExists, file0, dir0, exists0, prevExit, op, arg, res, requests, locationRead,
                   filename, resume_byte_pos, response, loopVars, total_size,
                   file_mode, outVars, conduct>>

Next ==
    \/ Start
    \/ Resolve
    \/ Prepare
    \/ Negotiate
    \/ Restart
    \/ PlainGet
    \/ Open
    \/ LoopRead
    \/ LoopWrite
    \/ LoopReport
    \/ Finish
    \/ Kill

Spec == Init /\ [][Next]_vars

\* A step of the running program: everything but the start of an invocation
\* and the kill, which are the user's.
Step ==
    \/ Resolve
    \/ Prepare
    \/ Negotiate
    \/ Restart
    \/ PlainGet
    \/ Open
    \/ LoopRead
    \/ LoopWrite
    \/ LoopReport
    \/ Finish

\* The server and the disk answer every call in the end: urlopen, read, open
\* and write return or raise, none blocks forever.
FairSpec == Spec /\ WF_vars(Step)

(* ------------------------------- claims --------------------------------- *)

\* The exchanges of this invocation that carried a Range header.
RangeExchanges == {i \in DOMAIN requests : requests[i].range # Missing}

\* The resume request of this invocation was answered with this status.
RangeAnswered(st) == \E i \in RangeExchanges : requests[i].status = st

\* C1: resume on 206.  When an invocation that found a local file of N > 0
\* bytes completes on a 206 response carrying Content-Length R and a body of
\* exactly R bytes, the request was Range: bytes=N-, the file has N + R bytes,
\* its first N bytes are the original ones, and the total size is N + R.
C1_ResumeOn206 ==
    (/\ pc = "complete"
     /\ Len(file0) > 0
     /\ response.status = 206
     /\ Known(response.clen)
     /\ Len(response.body) = Val(response.clen))
    => /\ \A i \in RangeExchanges : requests[i].range = Num(Len(file0))
       /\ Len(file) = Len(file0) + Val(response.clen)
       /\ Prefix(file, Len(file0)) = file0
       /\ total_size = Num(Len(file0) + Val(response.clen))

\* A resumed download of a foreign one-byte file completes: 1 + 2 bytes.
C1_Witness ==
    /\ pc = "complete"
    /\ file0 = <<StaleByte>>
    /\ response.status = 206
    /\ response.clen = Num(2)
    /\ Len(response.body) = 2
    /\ Len(file) = 3
    /\ total_size = Num(3)

\* C2: fallback on 200.  When the resume request of an invocation that found a
\* local file of N > 0 bytes is answered 200 and the invocation completes,
\* the old content is gone: the file is the full body exactly, the resume
\* position is 0, the total size is the fresh Content-Length, and the file
\* has that many bytes when the body has.
C2_FallbackOn200 ==
    (pc = "complete" /\ Len(file0) > 0 /\ RangeAnswered(200))
    => /\ file = response.body
       /\ file = Remote
       /\ resume_byte_pos = 0
       /\ total_size = response.clen
       /\ (Known(response.clen) /\ Val(response.clen) = Len(response.body))
            => Len(file) = Val(response.clen)

\* A two-byte foreign file is replaced by the whole content after a 200.
C2_Witness ==
    /\ pc = "complete"
    /\ Len(file0) = 2
    /\ file0 # Prefix(Remote, 2)
    /\ RangeAnswered(200)
    /\ response.clen = Num(RemoteLen)
    /\ file = Remote
    /\ total_size = Num(RemoteLen)

\* C3: kill and resume.  Against a range-honouring server of fixed content,
\* starting from a file that is a prefix of the content: every range request
\* starts at exactly the size of the file the invocation found; a kill in the
\* streaming loop leaves a file that extends the one found and is still a
\* prefix of the content; an invocation that completes leaves the full content.
C3_KillAndResume ==
    (conduct = "honour" /\ IsPrefix(file0, Remote))
    => /\ \A i \in RangeExchanges : requests[i].range = Num(Len(file0))
       /\ (pc \in Streaming \cup {"killed", "finish"})
            => (IsPrefix(file0, file) /\ IsPrefix(file, Remote))
       /\ pc = "complete" => file = Remote

\* The second invocation completes after the first was killed with part of
\* the content on disk.
C3_Witness ==
    /\ invocation = 2
    /\ prevExit = "killed"
    /\ pc = "complete"
    /\ conduct = "honour"
    /\ Len(file0) > 0
    /\ Len(file0) < RemoteLen
    /\ RangeAnswered(206)
    /\ file = Remote

\* Failures of the connection or of the disk, as opposed to an answer of the
\* server.
TransportErrors == {"URLError", "ConnectionResetError", "IncompleteRead", "OSError"}

\* C4: idempotence on a complete file.  When the local file already is the
\* whole remote content, resolution succeeds, and neither the connection nor
\* the disk fails, an invocation against a range-honouring server ends Complete
\* after a range request starting at the file's size and an empty body, with
\* the file unchanged and nothing written.
C4_IdempotentOnComplete ==
    (/\ file0 = Remote
     /\ filename # None
     /\ conduct = "honour"
     /\ pc \in {"complete", "failed"}
     /\ err \notin TransportErrors)
    => /\ pc = "complete"
       /\ RangeExchanges # {}
       /\ \A i \in RangeExchanges : requests[i].range = Num(RemoteLen)
       /\ response.body = <<>>
       /\ written = 0
       /\ file = file0

\* The content exchanges of this invocation.
ContentExchanges == {i \in DOMAIN requests : requests[i].target = "content"}

\* The last content request got no 200 or 206.
ContentRefused ==
    /\ ContentExchanges # {}
    /\ requests[Len(requests)].status \notin {200, 206}

\* C5: failure leaves the checkpoint in place.  After a content request that
\* failed or was answered with a status other than 200 or 206 the invocation
\* has failed and the file was never opened; a file that was never opened is
\* unchanged; an invocation that failed after the file was opened leaves, not
\* deleted, what the file held when opened followed by exactly the bytes
\* written so far.
C5_FailureKeepsCheckpoint ==
    /\ ContentRefused => (pc = "failed" /\ file_mode = None)
    /\ file_mode = None => (file = file0 /\ written = 0 /\ (Len(file0) > 0 => fileExists))
    /\ (pc = "failed" /\ file_mode # None)
         => /\ fileExists
            /\ ~ContentRefused
            /\ file = Opened(file_mode, file0) \o Prefix(response.body, written)

\* A resumed transfer fails in the loop after one chunk was appended.
C5_Witness ==
    /\ pc = "failed"
    /\ file_mode = "ab"
    /\ err \in ReadErrors
    /\ written = CHUNK_SIZE
    /\ Len(file0) = 1
    /\ Len(file) = 1 + CHUNK_SIZE

\* C6: every error reaches main and is caught there: a failed invocation has
\* printed exactly one ERROR: line and its exception did not escape main.
C6_AllErrorsCaught == pc = "failed" => (caught /\ errorLines = 1)

\* C7 as stated: every request carries the bearer token and the static
\* User-Agent.
C7_AllRequestsAuthorized ==
    \A i \in DOMAIN requests :
        requests[i].auth = "Bearer" /\ requests[i].agent = USER_AGENT

\* C7, amended: the resolution request, which is the first of the invocation
\* and the only one to the download endpoint, carries the bearer token and
\* the static User-Agent; the requests to the content URL carry neither.
C7_HeadersByTarget ==
    \A i \in DOMAIN requests :
        /\ (i = 1) = (requests[i].target = "api")
        /\ requests[i].target = "api"
             => /\ requests[i].auth = "Bearer"
                /\ requests[i].agent = USER_AGENT
                /\ requests[i].range = Missing
        /\ requests[i].target = "content"
             => /\ requests[i].auth = None
                /\ requests[i].agent = DEFAULT_AGENT

\* The three requests of an invocation that fell back to a full download.
C7_Witness ==
    /\ Len(requests) = 3
    /\ requests[1].auth = "Bearer"
    /\ requests[2].range # Missing
    /\ requests[2].auth = None
    /\ requests[3].range = Missing
    /\ requests[3].auth = None

\* C8: when the total size is known, the byte counter does not exceed it at
\* completion: a stream longer than declared does not end Complete.
C8_NeverExceedsTotal ==
    (pc = "complete" /\ Known(total_size)) => downloaded <= Val(total_size)

\* C9: where a progress report is emitted, the byte counter is the number of
\* bytes written to the file, resume offset included, and the chunk just
\* counted is already the end of the file.
C9_ReportAfterWrite ==
    pc = "report"
    => /\ downloaded = Len(file)
       /\ downloaded = resume_byte_pos + written
       /\ Suffix(file, Len(file) - Len(buffer)) = buffer

\* A report of a resumed transfer whose last chunk is shorter than CHUNK_SIZE.
C9_Witness ==
    /\ pc = "report"
    /\ Known(total_size)
    /\ Val(total_size) > 0
    /\ resume_byte_pos > 0
    /\ Len(buffer) > 0
    /\ Len(buffer) < CHUNK_SIZE
    /\ downloaded = Len(file)

\* C10: a 404 answer to the resolution request raises FileNotFoundError, the
\* Location header is never read and no other request is made.
C10_NotFound ==
    (requests # <<>> /\ requests[1].status = 404)
    => /\ pc = "failed"
       /\ err = "FileNotFoundError"
       /\ ~locationRead
       /\ Len(requests) = 1
       /\ ContentExchanges = {}

\* The invocation after a 404.
C10_Witness ==
    /\ requests # <<>>
    /\ requests[1].status = 404
    /\ pc = "failed"
    /\ err = "FileNotFoundError"
    /\ ~locationRead

\* The output directory and the output file are as the invocation found them.
FilesystemUntouched ==
    /\ dirExists = dir0
    /\ fileExists = exists0
    /\ file = file0
    /\ file_mode = None

\* C11: resolution has no side effects.  While no filename has been resolved
\* (before resolution, and after it failed on 404, on a status that is no
\* redirect, on a Location without the disposition parameter or on a
\* connection failure) the directory and the file are as found and no content
\* request has been made; a failed resolution has issued the resolution
\* request only.
C11_ResolutionNoSideEffects ==
    /\ filename = None => (FilesystemUntouched /\ ContentExchanges = {})
    /\ (pc = "failed" /\ filename = None) => Len(requests) = 1

\* A resolution that failed on a redirect without the disposition parameter,
\* with the output directory still missing.
C11_Witness ==
    /\ pc = "failed"
    /\ filename = None
    /\ err = "ValueError"
    /\ locationRead
    /\ ~dirExists
    /\ ~fileExists
    /\ Len(requests) = 1

(* --------------------- the functions, called alone ---------------------- *)

\* Longest argument of normalize_url.
MaxUrlLen == 5

\* Characters of the arguments of normalize_url: a digit, the letters of
\* "http" and the colon that ends a scheme.
UrlChars == {"7", "h", "t", "p", ":"}

\* Longest filename.
MaxNameLen == 3

\* Characters of the filenames: a letter, the percent sign and two digits.
NameChars == {"m", "%", "2", "5"}

\* Longest filename given to os.path.join.
MaxPathLen == 4

\* Characters of those filenames: a letter, the separator and the dot.
PathChars == {"m", "/", "."}

\* The state of the download when a function is called alone: nothing began.
Quiet ==
    /\ pc = "lib"
    /\ invocation = 0
    /\ dirExists = FALSE
    /\ fileExists = FALSE
    /\ file = <<>>
    /\ file0 = <<>>
    /\ dir0 = FALSE
    /\ exists0 = FALSE
    /\ prevExit = None
    /\ requests = <<>>
    /\ locationRead = FALSE
    /\ filename = None
    /\ resume_byte_pos = 0
    /\ response = NoResponse
    /\ rpos = 0
    /\ total_size = Missing
    /\ file_mode = None
    /\ downloaded = 0
    /\ buffer = <<>>
    /\ written = 0
    /\ unflushed = 0
    /\ err = None
    /\ caught = FALSE
    /\ errorLines = 0
    /\ progressReports = 0
    /\ completionReports = 0
    /\ conduct = "honour"
    /\ speed = ZeroSpeed
    /\ samples = <<>>

downloadVars ==
    <<pc, invocation, dirExists, fileExists, file, file0, dir0, exists0, prevExit,
      requests, locationRead, filename, resume_byte_pos, response, rpos, total_size,
      file_mode, downloaded, buffer, written, unflushed, err, caught, errorLines,
      progressReports, completionReports, conduct, speed, samples>>

InitPure ==
    /\ Quiet
    /\ res = <<>>
    /\ \/ op = "normalize_url" /\ arg \in StringsUpTo(UrlChars, MaxUrlLen)
       \/ op = "filename" /\ arg \in StringsUpTo(NameChars, MaxNameLen)
       \/ op = "join" /\ arg \in StringsUpTo(PathChars, MaxPathLen)

\* normalize_url applied to the argument, then to its own result.
CallNormalize ==
    /\ op = "normalize_url"
    /\ Len(res) < 2
    /\ res' = Append(res, normalize_url(IF res = <<>> THEN arg ELSE res[Len(res)]))
    /\ UNCHANGED <<op, arg, downloadVars>>

\* The resolver's filename for a redirect whose response-content-disposition
\* parameter is the percent-encoding of  attachment; filename="arg".
CallExtract ==
    /\ op = "filename"
    /\ res = <<>>
    /\ res' = <<ExtractFilename(PercentEncode(Attachment(arg)))>>
    /\ UNCHANGED <<op, arg, downloadVars>>

\* cli.py:110: the output file of a (decoded) filename.
CallJoin ==
    /\ op = "join"
    /\ res = <<>>
    /\ res' = <<join(OUTPUT_PATH, arg)>>
    /\ UNCHANGED <<op, arg, downloadVars>>

NextPure ==
    \/ CallNormalize
    \/ CallExtract
    \/ CallJoin

SpecPure == InitPure /\ [][NextPure]_vars

\* RFC 3986: a scheme is a letter, then letters and digits, then a colon.
HasScheme(x) ==
    \E k \in 2..Len(x) :
        /\ x[k] = ":"
        /\ x[1] \in Letters
        /\ \A i \in 2..(k - 1) : x[i] \in Letters \cup Digits

\* C14 as stated: an all-digit identifier gets the base endpoint in front, and
\* a string that begins with any URL scheme is returned unchanged.
C14_AnySchemeUnchanged ==
    (op = "normalize_url" /\ Len(res) >= 1)
    => /\ IsDigit(arg) => res[1] = BASE_URL \o arg
       /\ HasScheme(arg) => res[1] = arg

\* C14, amended: an all-digit identifier gets the base endpoint in front, and
\* a string that begins with the four characters "http" is returned unchanged;
\* every other string, one with another scheme included, gets the base
\* endpoint in front.
C14_HttpUnchanged ==
    (op = "normalize_url" /\ Len(res) >= 1)
    => /\ IsDigit(arg) => res[1] = BASE_URL \o arg
       /\ StartsWith(arg, <<"h", "t", "t", "p">>) => res[1] = arg
       /\ ~StartsWith(arg, <<"h", "t", "t", "p">>) => res[1] = BASE_URL \o arg

\* normalize_url returned a URL of scheme http as it was.
C14_Witness ==
    /\ op = "normalize_url"
    /\ arg = <<"h", "t", "t", "p", ":">>
    /\ Len(res) >= 1
    /\ res[1] = arg

\* C20: normalize_url is idempotent: applied to its own result it returns it.
C20_NormalizeIdempotent ==
    (op = "normalize_url" /\ Len(res) = 2) => res[2] = res[1]

\* normalize_url applied twice to an identifier: one base endpoint in front.
C20_Witness ==
    /\ op = "normalize_url"
    /\ arg = <<"7", "7">>
    /\ Len(res) = 2
    /\ res[1] = BASE_URL \o arg
    /\ res[2] = BASE_URL \o arg

\* C13: filename extraction.  For every filename F, the resolver's filename
\* for the percent-encoding of  attachment; filename="F"  is exactly F.
C13_FilenameExact ==
    (op = "filename" /\ res # <<>>) => res[1] = [raised |-> None, name |-> arg]

\* C12: for every filename the redirect can carry, the output file is a direct
\* child of the output directory.
C12_DirectChild ==
    (op = "join" /\ res # <<>> /\ NamesFile(arg)) => DirectChild(res[1], OUTPUT_PATH)

\* The content exchanges answered 200: the server sent the whole content.
FullBodies == {i \in ContentExchanges : requests[i].status = 200}

\* At most one range request; a content request follows it only when it was
\* answered 200, directly, without a Range header and as the last request.
OneDowngrade ==
    /\ Cardinality(RangeExchanges) <= 1
    /\ \A j \in RangeExchanges : \A i \in ContentExchanges :
          i > j => /\ requests[j].status = 200
                   /\ requests[i].range = Missing
                   /\ i = j + 1
                   /\ i = Len(requests)

\* No request follows a failure: every exchange but the last is the redirect
\* of the resolution or the 200 that answered the range request.
NoRetry ==
    \A i \in 1..(Len(requests) - 1) :
        \/ i = 1 /\ requests[i].status \in RedirectStatuses
        \/ i \in RangeExchanges /\ requests[i].status = 200

\* C15 as stated: single downgrade, no retries, the whole content fetched at
\* most once, and after a 200 to the range request it is that response that
\* is streamed to disk: the range request is the last request made.
C15_SingleFetch ==
    /\ OneDowngrade
    /\ NoRetry
    /\ Cardinality(FullBodies) <= 1
    /\ (file_mode # None /\ RangeAnswered(200)) => Len(requests) \in RangeExchanges

\* C15, amended: single downgrade and no retries as stated, but the 200
\* response to the range request is dropped unread: the body streamed to
\* disk is that of the full request that follows it, so the server is asked
\* for the whole content twice in an invocation that falls back (and once in
\* any other that reaches the file).
C15_SingleDowngrade ==
    /\ OneDowngrade
    /\ NoRetry
    /\ Len(requests) <= 3
    /\ (file_mode # None /\ RangeAnswered(200))
         => /\ Len(requests) = 3
            /\ FullBodies = {2, 3}
            /\ requests[3].range = Missing
            /\ response.body = Remote
    /\ (file_mode # None /\ ~RangeAnswered(200)) => Cardinality(FullBodies) <= 1
    /\ pc = "restart" => (Len(requests) = 2 /\ rpos = 0 /\ file = file0)

\* An invocation that fell back completes: two full responses, one streamed.
C15_Witness ==
    /\ pc = "complete"
    /\ Len(requests) = 3
    /\ FullBodies = {2, 3}
    /\ requests[2].range = Num(Len(file0))
    /\ requests[3].range = Missing
    /\ written = RemoteLen
    /\ file = Remote

\* The local file held bytes when the invocation began.
HadBytes == exists0 /\ Len(file0) > 0

\* C16: a range request is issued if and only if the local file existed with
\* size > 0 (a missing file and an empty file both take the plain GET); the
\* file is opened for append if and only if the range request was answered
\* 206, and for truncating overwrite in every other case that reaches
\* streaming.  Opening for append keeps the bytes, truncating drops them.
C16_BranchAndMode ==
    /\ (pc = "range" => HadBytes) /\ (pc = "get" => ~HadBytes)
    /\ Len(requests) >= 2 => (2 \in RangeExchanges <=> HadBytes)
    /\ RangeExchanges # {} => HadBytes
    /\ file_mode # None
         => /\ file_mode = (IF RangeAnswered(206) THEN "ab" ELSE "wb")
            /\ Len(requests) >= 2
    /\ (pc \in Streaming \cup {"finish", "complete"}) => file_mode # None
    /\ (pc = "read" /\ written = 0)
         => file = (IF RangeAnswered(206) THEN file0 ELSE <<>>)

\* An existing file with bytes was resumed by a 206, opened for append, and
\* the transfer completed it.
C16_Witness ==
    /\ pc = "complete"
    /\ HadBytes
    /\ Len(file0) < RemoteLen
    /\ RangeAnswered(206)
    /\ file_mode = "ab"
    /\ file = Remote

\* An existing empty file takes the plain GET and is opened for overwrite.
C16_EmptyFilePlainGet ==
    /\ pc = "read"
    /\ exists0 /\ file0 = <<>>
    /\ RangeExchanges = {}
    /\ Len(requests) = 2
    /\ file_mode = "wb"

\* The streaming loop is left by the break after an empty read, by an
\* exception, or by the death of the process.
LoopLeft ==
    (pc \in Streaming /\ pc' \notin Streaming)
        => \/ pc = "read" /\ pc' = "finish" /\ buffer' = <<>> /\ err' = None
           \/ pc' = "failed" /\ err' # None
           \/ pc' = "killed"

\* C17: with a server that ends the stream or errors, every invocation
\* reaches a terminal state (the kill of the process being the third way to
\* end); the loop is left only by an empty read or an error; Complete follows
\* an empty read at the end of the body; the completion report is written
\* once, in Complete, and never after a failure.
C17_Terminates ==
    /\ (pc = "resolve") ~> (pc \in Terminal)
    /\ [][LoopLeft]_vars
    /\ [](pc \in {"finish", "complete"}
            => (buffer = <<>> /\ rpos = Len(response.body) /\ err = None))
    /\ [](completionReports = IF pc = "complete" THEN 1 ELSE 0)
    /\ [][completionReports' # completionReports
            => (pc' = "complete" \/ (pc' = "resolve" /\ completionReports' = 0))]_vars

\* A transfer that wrote bytes ended with an empty read and one report.
C17_Witness ==
    /\ pc = "complete"
    /\ completionReports = 1
    /\ buffer = <<>>
    /\ written > 0
    /\ errorLines = 0

\* The throughput of the last sample with positive elapsed time, 0 if none.
RECURSIVE LastPositive(_)
LastPositive(ss) ==
    IF ss = <<>> THEN ZeroSpeed
    ELSE IF ss[Len(ss)][2] > 0 THEN Throughput(ss[Len(ss)][1], ss[Len(ss)][2])
    ELSE LastPositive(SubSeq(ss, 1, Len(ss) - 1))

\* The bytes of the samples taken so far.
RECURSIVE SampledBytes(_)
SampledBytes(ss) == IF ss = <<>> THEN 0 ELSE ss[1][1] + SampledBytes(Tail(ss))

\* C18: after each chunk the speed is the throughput of the most recent chunk
\* whose elapsed time was positive, and 0 if there was none; every chunk that
\* got past the write is sampled.
C18_SpeedIsLastPositive ==
    /\ speed = LastPositive(samples)
    /\ pc = "read" => SampledBytes(samples) = written

\* C18, the step: a chunk without positive elapsed time leaves the speed as
\* it was, and the only error of the step is the division by a total of 0,
\* whatever the elapsed time.
C18_ZeroElapsedKeeps ==
    pc = "report"
        => /\ pc' = "read"
             => /\ Len(samples') = Len(samples) + 1
                /\ samples'[Len(samples')][2] <= 0 => speed' = speed
           /\ pc' = "failed" => (Known(total_size) /\ Val(total_size) = 0)

\* C18: both parts.
C18_SpeedRetention == [](C18_SpeedIsLastPositive) /\ [][C18_ZeroElapsedKeeps]_vars

\* A chunk measured with positive elapsed time was followed by one measured
\* with none: the speed is still that of the first.
C18_Witness ==
    /\ pc = "read"
    /\ Len(samples) = 2
    /\ samples[1][2] > 0
    /\ samples[2][2] = 0
    /\ samples[1][1] # samples[2][1]
    /\ speed = Throughput(samples[1][1], samples[1][2])
    /\ err = None

\* C19: against a server that answers a range request with a correct 206 or
\* with the whole content, and a plain request with the whole content, a
\* local file that an invocation finds absent or a prefix of the content is a
\* prefix of the content in every state of that invocation, whether it
\* completes, fails or is killed; the next invocation then finds a prefix in
\* its turn, and so through every sequence of invocations.
C19_PrefixKept ==
    (conduct \in {"honour", "downgrade"} /\ IsPrefix(file0, Remote))
        => /\ IsPrefix(file, Remote)
           /\ (pc \in Streaming /\ file_mode = "ab") => Len(file) = Len(file0) + written

\* The second invocation found a partial file left by a killed one, was
\* answered 200, truncated the file and was killed in its turn.
C19_Witness ==
    /\ invocation = 2
    /\ prevExit = "killed"
    /\ pc = "killed"
    /\ conduct = "downgrade"
    /\ RangeAnswered(200)
    /\ Len(file0) = 2
    /\ Len(file) = 1
    /\ IsPrefix(file, Remote)

====
